---- MODULE Spec2Model ----
(***************************************************************************)
(* A model of cubedash: the memoised index queries of _pages.py (the       *)
(* ttl_cache wrapper around datasets_as_features, dataset_shape,           *)
(* _timeline_years and _timelines_platform), the month window built by     *)
(* next_date, the dataset listing of product_datasets_page with its        *)
(* content negotiation, and the worker processes that run.py starts.       *)
(*                                                                         *)
(* Library calls are modelled by what the library does: cachetools'        *)
(* TTLCache and cached wrapper, werkzeug's MIMEAccept and forking server,  *)
(* Python's datetime and sorted.                                           *)
(***************************************************************************)
EXTENDS Integers, Sequences, FiniteSets, TLC

VARIABLES
    clock,      \* the reading of the cache timer, in seconds
    index,      \* how many datasets of Catalogue the external index holds
    workers,    \* the --workers option of cli
    cache,      \* cache[p][op]: the TTLCache of op in process p, entries in LRU order
    pc,         \* pc[p]: where process p stands in the wrapper
    cur,        \* cur[p]: the call process p is executing
    last,       \* the call that finished last, with what was known of its key before it
    hist,       \* hist[op][key]: what has happened to the key so far
    lastQuery,  \* the last query made to the index, with the time of the one before it
    warm,       \* how many requests the crawler has made
    asked,      \* the <<year, month>> of the last month window built
    window,     \* that window: a Range, or the ValueError raised while building it
    stored,     \* the datasets of the index that match the listing's query
    accept,     \* the Accept header of the listing request, as parsed
    page        \* the response of product_datasets_page

cacheVars == <<clock, index, workers, cache, pc, cur, last, hist, lastQuery, warm>>
dateVars == <<asked, window>>
pageVars == <<stored, accept, page>>
vars == <<cacheVars, dateVars, pageVars>>

----------------------------------------------------------------------------
(* Bounds of the model. *)

MaxCalls == 3
MaxRequests == 2
MaxWorkers == 3
MaxPairCalls == 4
NumDatasets == 3

(* Program and library constants. *)

CACHE_LONG_TIMEOUT_SECS == 60 * 60 * 18
_HARD_SEARCH_LIMIT == 500
maxsize == 128
MINYEAR == 1
MAXYEAR == 9999
TimelineFromYear == 1986

None == [none |-> TRUE]
ValueError == [raises |-> "ValueError"]

----------------------------------------------------------------------------
(* datetime: the constructor validates its fields (the hour is 0 when it   *)
(* is not given); values are ordered by (year, month, day, hour).          *)

IsLeap(y) == (y % 4 = 0) /\ ((y % 100 # 0) \/ (y % 400 = 0))

DaysInMonth(y, m) ==
    IF m = 2 THEN (IF IsLeap(y) THEN 29 ELSE 28)
    ELSE IF m \in {4, 6, 9, 11} THEN 30 ELSE 31

datetime(y, m, d, h) ==
    IF y \in MINYEAR..MAXYEAR /\ m \in 1..12 /\ d >= 1 /\ d <= DaysInMonth(y, m)
       /\ h \in 0..23
    THEN [year |-> y, month |-> m, day |-> d, hour |-> h]
    ELSE ValueError

DateLess(a, b) ==
    \/ a.year < b.year
    \/ a.year = b.year /\ a.month < b.month
    \/ a.year = b.year /\ a.month = b.month /\ a.day < b.day
    \/ a.year = b.year /\ a.month = b.month /\ a.day = b.day /\ a.hour < b.hour

next_date_no_rollover(date) == datetime(date.year, date.month + 1, 1, 0)

next_date(date) ==
    IF date.month = 12
    THEN datetime(date.year + 1, 1, 1, 0)
    ELSE datetime(date.year, date.month + 1, 1, 0)

Range(begin, end) == [begin |-> begin, end |-> end]

InRange(t, r) == ~DateLess(t, r.begin) /\ DateLess(t, r.end)

----------------------------------------------------------------------------
(* The external index. It holds the first `index` datasets of Catalogue;   *)
(* a search returns the matching ones in catalogue order, or raises.       *)

Product == "ls7_level1_scene"
Platform == "LANDSAT_7"

Dataset(d) ==
    [id          |-> d,
     product     |-> Product,
     platform    |-> Platform,
     center_time |-> datetime(2017, IF d % 4 = 0 THEN 2 ELSE 1,
                              IF d % 3 = 2 THEN 31 ELSE 1, IF d % 3 = 2 THEN 23 ELSE 0),
     extent      |-> (d % 3 # 2)]

Catalogue(n) == [d \in 1..n |-> Dataset(d)]

(* What the index holds when the server starts: all of the catalogue but   *)
(* its last dataset, which is indexed while the server runs.               *)
InitialIndex == NumDatasets - 1

search(n, product, time) ==
    SelectSeq(Catalogue(n),
              LAMBDA ds : ds.product = product /\ InRange(ds.center_time, time))

count_product_through_time(n, product, begin) ==
    LET hits == SelectSeq(Catalogue(n),
                          LAMBDA ds : ds.product = product
                                      /\ ~DateLess(ds.center_time, begin))
    IN  [m \in 1..2 |->
            Len(SelectSeq(hits, LAMBDA ds : ds.center_time.month = m))]

count_by_product_through_time(n, platform, begin) ==
    LET hits == SelectSeq(Catalogue(n),
                          LAMBDA ds : ds.platform = platform
                                      /\ ~DateLess(ds.center_time, begin))
    IN  IF hits = <<>> THEN <<>>
        ELSE <<[product |-> Product, count |-> Len(hits)]>>

----------------------------------------------------------------------------
(* The cached operations. Each returns [raised, queried, value]: whether   *)
(* it raised, whether it reached the index, and the response.              *)

Raised(q) == [raised |-> TRUE, queried |-> q, value |-> None]
Returned(v) == [raised |-> FALSE, queried |-> TRUE, value |-> v]

dataset_to_feature(ds) ==
    [type |-> "Feature", geometry |-> ds.id,
     properties |-> [id |-> ds.id, product |-> ds.product, time |-> ds.center_time]]

Features(datasets) == [i \in 1..Len(datasets) |-> dataset_to_feature(datasets[i])]

features_without_filter(args, idx, fail) ==
    LET start == datetime(args[2], args[3], 1, 0) IN
    IF start = ValueError THEN Raised(FALSE)
    ELSE IF next_date(start) = ValueError THEN Raised(FALSE)
    ELSE IF fail THEN Raised(TRUE)
    ELSE Returned([type |-> "FeatureCollection",
                   features |-> Features(search(idx, args[1], Range(start, next_date(start))))])

datasets_as_features(args, idx, fail) ==
    LET start == datetime(args[2], args[3], 1, 0) IN
    IF start = ValueError THEN Raised(FALSE)
    ELSE IF next_date(start) = ValueError THEN Raised(FALSE)
    ELSE IF fail THEN Raised(TRUE)
    ELSE LET time == Range(start, next_date(start))
             datasets == search(idx, args[1], time)
         IN  Returned([type |-> "FeatureCollection",
                       features |-> Features(SelectSeq(datasets, LAMBDA ds : ds.extent))])

dataset_shape_wrapping_month(args, idx, fail) ==
    LET start == datetime(args[2], ((args[3] - 1) % 12) + 1, 1, 0) IN
    IF start = ValueError THEN Raised(FALSE)
    ELSE IF next_date(start) = ValueError THEN Raised(FALSE)
    ELSE IF fail THEN Raised(TRUE)
    ELSE LET time == Range(start, next_date(start))
             datasets == search(idx, args[1], time)
             dataset_shapes == SelectSeq(datasets, LAMBDA ds : ds.extent)
         IN  Returned([type |-> "Feature",
                       geometry |-> {dataset_shapes[i].id : i \in 1..Len(dataset_shapes)},
                       properties |-> [dataset_count |-> Len(dataset_shapes)]])

dataset_shape(args, idx, fail) ==
    LET start == datetime(args[2], args[3], 1, 0) IN
    IF start = ValueError THEN Raised(FALSE)
    ELSE IF next_date(start) = ValueError THEN Raised(FALSE)
    ELSE IF fail THEN Raised(TRUE)
    ELSE LET time == Range(start, next_date(start))
             datasets == search(idx, args[1], time)
             dataset_shapes == SelectSeq(datasets, LAMBDA ds : ds.extent)
         IN  Returned([type |-> "Feature",
                       geometry |-> {dataset_shapes[i].id : i \in 1..Len(dataset_shapes)},
                       properties |-> [dataset_count |-> Len(dataset_shapes)]])

_timeline_years(args, idx, fail) ==
    LET begin == datetime(args[1], 1, 1, 0) IN
    IF begin = ValueError THEN Raised(FALSE)
    ELSE IF fail THEN Raised(TRUE)
    ELSE Returned([timeline |-> count_product_through_time(idx, args[2], begin)])

_timelines_platform(args, idx, fail) ==
    IF fail THEN Raised(TRUE)
    ELSE Returned([product_counts |->
                    count_by_product_through_time(idx, args[1], datetime(1986, 1, 1, 0))])

Ops == {"datasets_as_features", "dataset_shape", "_timeline_years", "_timelines_platform"}

func(op, args, idx, fail) ==
    CASE op = "datasets_as_features" -> datasets_as_features(args, idx, fail)
      [] op = "dataset_shape"        -> dataset_shape(args, idx, fail)
      [] op = "_timeline_years"      -> _timeline_years(args, idx, fail)
      [] op = "_timelines_platform"  -> _timelines_platform(args, idx, fail)

----------------------------------------------------------------------------
(* cachetools: TTLCache(maxsize, ttl) as a sequence of entries             *)
(* [key, value, expires] in LRU order, least recently used first.  Entries *)
(* are inserted with expires = time + ttl under a clock that never goes    *)
(* back, so the expiry list is ordered by expires and expire() removes     *)
(* exactly the entries with expires <= time.                               *)

ttl_halved == CACHE_LONG_TIMEOUT_SECS \div 2

ttl == CACHE_LONG_TIMEOUT_SECS

hashkey(args) == args

Find(c, key) ==
    IF \E i \in 1..Len(c) : c[i].key = key
    THEN CHOOSE i \in 1..Len(c) : c[i].key = key
    ELSE 0

Without(c, i) == SubSeq(c, 1, i - 1) \o SubSeq(c, i + 1, Len(c))

Live_inclusive(e, time) == time <= e.expires

Live(e, time) == time < e.expires

TTLCache_expire(c, time) == SelectSeq(c, LAMBDA e : Live(e, time))

TTLCache_contains(c, key, time) ==
    Find(c, key) # 0 /\ Live(c[Find(c, key)], time)

(* __getitem__: __getlink moves the key to the end of the LRU order, also  *)
(* when the entry has expired; an expired or absent key is a KeyError.     *)
TTLCache_getitem(c, key, time) ==
    LET i == Find(c, key) IN
    IF i = 0 THEN [found |-> FALSE, value |-> None, cache |-> c]
    ELSE LET moved == Without(c, i) \o <<c[i]>> IN
         IF Live(c[i], time)
         THEN [found |-> TRUE, value |-> c[i].value, cache |-> moved]
         ELSE [found |-> FALSE, value |-> None, cache |-> moved]

(* popitem: expire, then drop the least recently used entry. *)
TTLCache_popitem(c, time) == Tail(TTLCache_expire(c, time))

RECURSIVE Cache_makeroom(_, _)
Cache_makeroom(c, time) ==
    IF Len(c) + 1 > maxsize THEN Cache_makeroom(TTLCache_popitem(c, time), time) ELSE c

TTLCache_setitem(c, key, value, time) ==
    LET c1 == TTLCache_expire(c, time)
        c2 == IF Find(c1, key) = 0 THEN Cache_makeroom(c1, time) ELSE c1
        c3 == IF Find(c2, key) = 0 THEN c2 ELSE Without(c2, Find(c2, key))
    IN  c3 \o <<[key |-> key, value |-> value, expires |-> time + ttl]>>

Cache_setdefault(c, key, default, time) ==
    IF TTLCache_contains(c, key, time)
    THEN [value |-> TTLCache_getitem(c, key, time).value,
          cache |-> TTLCache_getitem(c, key, time).cache]
    ELSE [value |-> default, cache |-> TTLCache_setitem(c, key, default, time)]

----------------------------------------------------------------------------
(* The requests the model makes. *)

Times == {0, CACHE_LONG_TIMEOUT_SECS - 1, CACHE_LONG_TIMEOUT_SECS}

Args(op) ==
    CASE op = "datasets_as_features" -> {<<Product, 2017, m>> : m \in {1, 2, 13}}
      [] op = "dataset_shape"        -> {<<Product, 2017, m>> : m \in {1, 13}}
      [] op = "_timeline_years"      -> {<<TimelineFromYear, Product>>}
      [] op = "_timelines_platform"  -> {<<Platform>>}

Procs == 0..MaxWorkers

(* run_simple(processes=workers): one worker serves every request in the   *)
(* server's own process; more than one makes the server fork a child per   *)
(* request, at most `workers` of them at a time.                           *)
Handlers == IF workers > 1 THEN 1..workers ELSE {0}

EmptyCaches == [op \in Ops |-> <<>>]

NoCall == [op |-> "", args |-> <<>>, at |-> 0, before |-> {}, value |-> None,
           queried |-> FALSE]

Entries(c) == {c[i] : i \in 1..Len(c)}

Keys(c) == {c[i].key : i \in 1..Len(c)}

(* What the process keeps of its caches once the request is served: a      *)
(* forked child exits and its memory goes with it.                         *)
Kept(p, caches) == IF p = 0 THEN caches ELSE EmptyCaches

(* History of a call's arguments, kept for the properties and never read   *)
(* by the wrapper: the last successful call (okAt, okValue), the last      *)
(* store (storedAt, storedValue, and whether maxsize has evicted the entry *)
(* since), the outcome of the last call and the time of the last query.    *)
NoHist == [okAt |-> -1, okValue |-> None, storedAt |-> -1, storedValue |-> None,
           evicted |-> FALSE, outcome |-> "", queriedAt |-> -1]

Hist(op, key) == IF key \in DOMAIN hist[op] THEN hist[op][key] ELSE NoHist

Put(h, key, rec) == [k \in DOMAIN h \cup {key} |-> IF k = key THEN rec ELSE h[k]]

Finished == last.n + Cardinality({p \in Procs : pc[p] # "idle"})

(* The model stops taking requests after MaxCalls calls in the one-process *)
(* server and after MaxRequests requests in the forking server.            *)
Budget == IF workers > 1 THEN MaxRequests ELSE MaxCalls

Done(p, c, outcome, value, c2) ==
    [n |-> last.n + 1, p |-> p, op |-> c.op, args |-> c.args, at |-> c.at,
     done |-> clock, outcome |-> outcome, value |-> value, queried |-> c.queried,
     untouched |-> (Entries(c2) = c.before),
     entries |-> {e \in Entries(c2) : e.key = hashkey(c.args)},
     prev |-> Hist(c.op, c.args)]

NoLast ==
    [n |-> 0, p |-> 0, op |-> "", args |-> <<>>, at |-> 0, done |-> 0, outcome |-> "",
     value |-> None, queried |-> FALSE, untouched |-> TRUE, entries |-> {},
     prev |-> NoHist]

NoQuery == [op |-> "", args |-> <<>>, at |-> -1, prevAt |-> -1]

DateIdle == asked = <<>> /\ window = None

PageIdle == stored = <<>> /\ accept = <<>> /\ page = None

InitCommon ==
    /\ DateIdle
    /\ PageIdle
    /\ clock = 0
    /\ index = InitialIndex
    /\ cache = [p \in Procs |-> EmptyCaches]
    /\ pc = [p \in Procs |-> "idle"]
    /\ cur = [p \in Procs |-> NoCall]
    /\ last = NoLast
    /\ hist = [op \in Ops |-> <<>>]
    /\ lastQuery = NoQuery
    /\ warm = 0

Init == InitCommon /\ workers = 1

InitServer == InitCommon /\ workers \in 2..MaxWorkers

(* wrapper, first part: look the key up under the lock. A forked child     *)
(* starts from a copy of the server process's caches; children are         *)
(* interchangeable, so a request takes the lowest free child slot.         *)
Lookup(p, op, args) ==
    /\ pc[p] = "idle"
    /\ \A q \in Handlers : q < p => pc[q] # "idle"
    /\ LET k == hashkey(args)
           r == TTLCache_getitem(cache[0][op], k, clock)
           mine == [cache[0] EXCEPT ![op] = r.cache]
           call == [op |-> op, args |-> args, at |-> clock,
                    before |-> Entries(cache[0][op]), value |-> None, queried |-> FALSE]
       IN  IF r.found
           THEN /\ last' = Done(p, call, "hit", r.value, r.cache)
                /\ hist' = [hist EXCEPT ![op] = Put(@, args,
                              [Hist(op, args) EXCEPT !.okAt = clock, !.okValue = r.value,
                                                     !.outcome = "hit"])]
                /\ cache' = [cache EXCEPT ![p] = Kept(p, mine)]
                /\ UNCHANGED <<pc, cur>>
           ELSE /\ pc' = [pc EXCEPT ![p] = "run"]
                /\ cur' = [cur EXCEPT ![p] = call]
                /\ cache' = [cache EXCEPT ![p] = mine]
                /\ UNCHANGED <<last, hist>>
    /\ UNCHANGED <<clock, index, workers, lastQuery, dateVars, pageVars>>

Request(p, op, args) ==
    /\ Finished - warm < Budget
    /\ Lookup(p, op, args)
    /\ UNCHANGED warm

(* wrapper, second part: v = func(args), outside the lock. An exception    *)
(* leaves the wrapper here.                                                *)
Run(p) ==
    /\ pc[p] = "run"
    /\ \E fail \in BOOLEAN :
        LET op == cur[p].op
            k == cur[p].args
            res == func(op, cur[p].args, index, fail)
            call == [cur[p] EXCEPT !.queried = res.queried]
            h == IF res.queried THEN [Hist(op, k) EXCEPT !.queriedAt = clock]
                 ELSE Hist(op, k)
        IN
        /\ lastQuery' = IF res.queried
                        THEN [op |-> op, args |-> cur[p].args, at |-> clock,
                              prevAt |-> Hist(op, k).queriedAt]
                        ELSE lastQuery
        /\ IF res.raised
           THEN /\ last' = Done(p, call, "error", None, cache[p][op])
                /\ hist' = [hist EXCEPT ![op] = Put(@, k, [h EXCEPT !.outcome = "error"])]
                /\ pc' = [pc EXCEPT ![p] = "idle"]
                /\ cur' = [cur EXCEPT ![p] = NoCall]
                /\ cache' = [cache EXCEPT ![p] = Kept(p, cache[p])]
           ELSE /\ pc' = [pc EXCEPT ![p] = "store"]
                /\ cur' = [cur EXCEPT ![p] =
                              [call EXCEPT !.value = [response |-> res.value, src |-> index,
                                                      computed |-> clock]]]
                /\ hist' = [hist EXCEPT ![op] = Put(@, k, h)]
                /\ UNCHANGED <<last, cache>>
    /\ UNCHANGED <<clock, index, workers, warm, dateVars, pageVars>>

(* wrapper, last part: cache.setdefault(k, v) under the lock. *)
Store(p) ==
    /\ pc[p] = "store"
    /\ LET op == cur[p].op
           k == hashkey(cur[p].args)
           r == Cache_setdefault(cache[p][op], k, cur[p].value, clock)
           gone == Keys(TTLCache_expire(cache[p][op], clock)) \ Keys(r.cache)
           h1 == [a \in DOMAIN hist[op] |->
                     IF hashkey(a) \in gone THEN [hist[op][a] EXCEPT !.evicted = TRUE]
                     ELSE hist[op][a]]
       IN  /\ last' = Done(p, cur[p], "miss", r.value, r.cache)
           /\ hist' = [hist EXCEPT ![op] = Put(h1, cur[p].args,
                         [Hist(op, cur[p].args) EXCEPT
                             !.okAt = cur[p].at, !.okValue = r.value,
                             !.storedAt = clock, !.storedValue = r.value,
                             !.evicted = FALSE, !.outcome = "miss"])]
           /\ cache' = [cache EXCEPT ![p] = Kept(p, [cache[p] EXCEPT ![op] = r.cache])]
    /\ pc' = [pc EXCEPT ![p] = "idle"]
    /\ cur' = [cur EXCEPT ![p] = NoCall]
    /\ UNCHANGED <<clock, index, workers, lastQuery, warm, dateVars, pageVars>>

Tick ==
    /\ \E t \in Times : t > clock /\ clock' = t
    /\ UNCHANGED <<index, workers, cache, pc, cur, last, hist, lastQuery, warm, dateVars, pageVars>>

(* The index is written by others: a dataset is added. *)
IndexAdd ==
    /\ index < NumDatasets
    /\ index' = index + 1
    /\ UNCHANGED <<clock, workers, cache, pc, cur, last, hist, lastQuery, warm, dateVars, pageVars>>

Next ==
    \/ \E p \in Handlers, op \in Ops : \E args \in Args(op) : Request(p, op, args)
    \/ \E p \in Handlers : Run(p)
    \/ \E p \in Handlers : Store(p)
    \/ Tick
    \/ IndexAdd

Spec == Init /\ [][Next]_vars

SpecServer == InitServer /\ [][Next]_vars

(* The map of a month and its outline: the one-process server is sent      *)
(* MaxPairCalls requests for datasets_as_features and dataset_shape, with  *)
(* the arguments both routes are given.                                    *)
PairOps == {"datasets_as_features", "dataset_shape"}

PairArgs == Args("datasets_as_features") \cap Args("dataset_shape")

PairRequest(op, args) ==
    /\ Finished < MaxPairCalls
    /\ Lookup(0, op, args)
    /\ UNCHANGED warm

NextPair ==
    \/ \E op \in PairOps : \E args \in PairArgs : PairRequest(op, args)
    \/ Run(0)
    \/ Store(0)
    \/ Tick
    \/ IndexAdd

SpecPair == Init /\ [][NextPair]_vars

(* A crawler: before anything else happens, a client of the one-process    *)
(* server fetches the features of <<Product, 2017, 1>> and then of the     *)
(* months from January 1900 on, maxsize requests in all, each served       *)
(* before the next is made, within CACHE_LONG_TIMEOUT_SECS - 1 seconds and *)
(* with the index answering. Other requests follow the crawl.              *)
CrawlArgs(i) ==
    IF i = 1 THEN <<Product, 2017, 1>>
    ELSE <<Product, 1900 + ((i - 2) \div 12), ((i - 2) % 12) + 1>>

Crawling == warm > 0 /\ (warm < maxsize \/ last.n < warm)

CrawlRequest ==
    /\ warm < maxsize
    /\ last.n = warm
    /\ index = InitialIndex
    /\ clock = 0
    /\ Lookup(0, "datasets_as_features", CrawlArgs(warm + 1))
    /\ warm' = warm + 1

CrawlRun == Crawling /\ Run(0) /\ pc'[0] = "store"

CrawlStore == Crawling /\ Store(0)

NextCrawl ==
    \/ ~Crawling /\ Next
    \/ CrawlRequest
    \/ CrawlRun
    \/ CrawlStore

SpecCrawl == Init /\ [][NextCrawl]_vars

TypeOK ==
    /\ clock \in Times
    /\ index \in 0..NumDatasets
    /\ workers \in 1..MaxWorkers
    /\ pc \in [Procs -> {"idle", "run", "store"}]
    /\ last.n <= warm + MaxCalls + MaxPairCalls
    /\ warm \in 0..maxsize

----------------------------------------------------------------------------
(* Properties of the cached operations, read off the call that finished    *)
(* last (any reachable call is the last one in some state).                *)

Called == last.n > 0

Succeeded == Called /\ last.outcome # "error"

(* C1, as stated: a call whose arguments equal those of an earlier         *)
(* successful call made less than CACHE_LONG_TIMEOUT_SECS before returns   *)
(* the result of that earlier call and makes no new query to the index.    *)
C1_HitAfterAnySuccessfulCall ==
    (Succeeded /\ last.prev.okAt >= 0 /\ last.at - last.prev.okAt < CACHE_LONG_TIMEOUT_SECS)
        => (last.outcome = "hit" /\ last.value = last.prev.okValue /\ ~last.queried)

(* C1, amended: a call whose arguments equal those of an earlier call that *)
(* missed the cache and stored its result less than                        *)
(* CACHE_LONG_TIMEOUT_SECS before, the entry not having been evicted by    *)
(* the maxsize bound since, returns the stored result and makes no new     *)
(* query to the index, whatever calls with other arguments came between.   *)
C1_HitWhileStoredEntryIsYoung ==
    (Called /\ last.prev.storedAt >= 0 /\ ~last.prev.evicted
            /\ last.at - last.prev.storedAt < CACHE_LONG_TIMEOUT_SECS)
        => (last.outcome = "hit" /\ last.value = last.prev.storedValue /\ ~last.queried)

(* A hit at the last second of the entry's life, in a full cache, after    *)
(* the store of another key of the same operation evicted a third one.     *)
C1_Witness ==
    /\ Called /\ last.outcome = "hit"
    /\ last.at - last.prev.storedAt = CACHE_LONG_TIMEOUT_SECS - 1
    /\ Len(cache[0][last.op]) = maxsize
    /\ \E a \in DOMAIN hist[last.op] :
          a # last.args /\ hist[last.op][a].storedAt >= last.prev.storedAt
    /\ \E a \in DOMAIN hist[last.op] : a # last.args /\ hist[last.op][a].evicted

(* C2, as stated: a cached operation never returns a result that was       *)
(* computed CACHE_LONG_TIMEOUT_SECS or more before the call.               *)
C2_NeverOlderThanTtlSinceComputed ==
    (Called /\ last.outcome = "hit")
        => last.at - last.value.computed < CACHE_LONG_TIMEOUT_SECS

(* C2, amended: a cached operation never returns a result that was stored  *)
(* CACHE_LONG_TIMEOUT_SECS or more before the call; the first call for a   *)
(* key made after its entry has reached that age queries the index again,  *)
(* returns the fresh result and stores it in place of the old one.         *)
C2_NeverOlderThanTtlSinceStored ==
    /\ (Called /\ last.outcome = "hit")
          => /\ last.prev.storedAt >= 0
             /\ last.at - last.prev.storedAt < CACHE_LONG_TIMEOUT_SECS
             /\ last.value = last.prev.storedValue
    /\ (Succeeded /\ last.prev.storedAt >= 0
                  /\ last.at - last.prev.storedAt >= CACHE_LONG_TIMEOUT_SECS)
          => /\ last.outcome = "miss"
             /\ last.queried
             /\ last.value.computed >= last.at
             /\ last.value.response = func(last.op, last.args, last.value.src, FALSE).value
             /\ last.entries = {[key |-> hashkey(last.args), value |-> last.value,
                                 expires |-> last.done + CACHE_LONG_TIMEOUT_SECS]}

(* An entry exactly CACHE_LONG_TIMEOUT_SECS old was replaced by a result   *)
(* computed from newer index contents.                                     *)
C2_Witness ==
    /\ Called /\ last.outcome = "miss"
    /\ last.prev.storedAt >= 0
    /\ last.at - last.prev.storedAt = CACHE_LONG_TIMEOUT_SECS
    /\ last.value.src # last.prev.storedValue.src

BadMonth(op, args) ==
    op \in {"datasets_as_features", "dataset_shape"} /\ args[3] \notin 1..12

(* C4: when a cached operation raises (the index search raises, or a month *)
(* outside 1..12 fails before any index query), the error reaches the      *)
(* caller, no cache entry is added or changed, and the next call with the  *)
(* same arguments runs the operation again instead of replaying the        *)
(* failure.                                                                *)
C4_FailuresAreNotCached ==
    /\ (Called /\ last.outcome = "error")
          => (last.value = None /\ last.untouched)
    /\ (Called /\ BadMonth(last.op, last.args))
          => (last.outcome = "error" /\ ~last.queried)
    /\ (Called /\ last.prev.outcome = "error")
          => /\ last.outcome \in {"miss", "error"}
             /\ last.outcome = "miss"
                   => /\ last.queried
                      /\ last.value.computed >= last.at
                      /\ last.value.response
                            = func(last.op, last.args, last.value.src, FALSE).value

(* A failed index search was followed by a call with the same arguments    *)
(* that reached the index and returned its answer.                         *)
C4_Witness ==
    /\ Called /\ last.outcome = "miss"
    /\ last.prev.outcome = "error"
    /\ last.prev.queriedAt >= 0

(* C3: the index is queried at most once per key (cached operation plus    *)
(* its arguments) in any window of CACHE_LONG_TIMEOUT_SECS, under any      *)
(* interleaving of the requests served by the server's workers.            *)
C3_OneQueryPerKeyPerWindow ==
    lastQuery.prevAt >= 0 => lastQuery.at - lastQuery.prevAt >= CACHE_LONG_TIMEOUT_SECS

Ids(features) == [i \in 1..Len(features) |-> features[i].properties.id]

(* C8: for the same product, year and month and the same index contents,   *)
(* the feature collection holds one feature per dataset of the search that *)
(* has an extent, in the order of the search, and dataset_count of         *)
(* dataset_shape is that number of features, also for cached responses.    *)
C8_SameDatasets ==
    \A a \in DOMAIN hist["datasets_as_features"] \cap DOMAIN hist["dataset_shape"] :
        LET f == hist["datasets_as_features"][a].okValue
            g == hist["dataset_shape"][a].okValue
        IN  (f # None /\ g # None /\ f.src = g.src) =>
              LET start == datetime(a[2], a[3], 1, 0)
                  found == search(f.src, a[1], Range(start, next_date(start)))
                  withExtent == {i \in 1..Len(found) : found[i].extent}
              IN  /\ Len(f.response.features) = Cardinality(withExtent)
                  /\ \A i \in 1..Len(f.response.features) :
                        \E j \in withExtent :
                           /\ f.response.features[i].properties.id = found[j].id
                           /\ Cardinality({k \in withExtent : k < j}) = i - 1
                  /\ g.response.properties.dataset_count = Len(f.response.features)
                  /\ g.response.geometry
                        = {f.response.features[i].geometry : i \in 1..Len(f.response.features)}

(* Both responses were last served from the caches, computed from the     *)
(* same index contents, for a month in which the search returns two        *)
(* datasets with an extent and, between them, one without.                 *)
C8_Witness ==
    \E a \in DOMAIN hist["datasets_as_features"] \cap DOMAIN hist["dataset_shape"] :
        LET f == hist["datasets_as_features"][a]
            g == hist["dataset_shape"][a]
            start == datetime(a[2], a[3], 1, 0)
        IN  /\ f.okValue # None /\ g.okValue # None
            /\ f.okValue.src = g.okValue.src
            /\ f.outcome = "hit" /\ g.outcome = "hit"
            /\ Len(f.okValue.response.features) = 2
            /\ g.okValue.response.properties.dataset_count = 2
            /\ LET found == search(f.okValue.src, a[1], Range(start, next_date(start)))
               IN  Len(found) = 3 /\ found[1].extent /\ ~found[2].extent /\ found[3].extent

----------------------------------------------------------------------------
(* The month window of datasets_as_features and dataset_shape:             *)
(*     start = datetime(year, month, 1); time = Range(start, next_date(start)) *)
(* for the year and month of the URL, which the route takes as any         *)
(* non-negative integers.                                                  *)

Years == {0, 1, 2016, 2017, 2100, MAXYEAR - 1, MAXYEAR, MAXYEAR + 1}
Months == 0..13

month_window(year, month) ==
    LET start == datetime(year, month, 1, 0) IN
    IF start = ValueError THEN ValueError
    ELSE IF next_date(start) = ValueError THEN ValueError
    ELSE Range(start, next_date(start))

InitDate ==
    /\ PageIdle
    /\ clock = 0
    /\ index = InitialIndex
    /\ workers = 1
    /\ cache = [p \in Procs |-> EmptyCaches]
    /\ pc = [p \in Procs |-> "idle"]
    /\ cur = [p \in Procs |-> NoCall]
    /\ last = NoLast
    /\ hist = [op \in Ops |-> <<>>]
    /\ lastQuery = NoQuery
    /\ warm = 0
    /\ asked = <<>>
    /\ window = None

BuildWindow ==
    /\ \E year \in Years, month \in Months :
          /\ asked' = <<year, month>>
          /\ window' = month_window(year, month)
    /\ UNCHANGED <<cacheVars, pageVars>>

NextDate == BuildWindow

SpecDate == InitDate /\ [][NextDate]_vars

(* The instants the windows are probed with: the first and the last hour   *)
(* of the months around the one asked for.                                 *)
Probes(year, month) ==
    {d \in {datetime(y, m, day, h) :
               y \in {year - 1, year, year + 1}, m \in {1, 2, 11, 12, month - 1, month, month + 1},
               day \in {1, 28, 29, 30, 31}, h \in {0, 23}} : d # ValueError}

FollowingMonth(year, month) ==
    IF month = 12 THEN <<year + 1, 1>> ELSE <<year, month + 1>>

IsMonthWindow(w, year, month) ==
    /\ w # ValueError
    /\ w.begin = [year |-> year, month |-> month, day |-> 1, hour |-> 0]
    /\ w.end.day = 1 /\ w.end.hour = 0
    /\ w.end.month \in 1..12
    /\ 12 * w.end.year + w.end.month = 12 * year + month + 1
    /\ <<w.end.year, w.end.month>> = FollowingMonth(year, month)
    /\ \A t \in Probes(year, month) :
          InRange(t, w) <=> (t.year = year /\ t.month = month)

(* C5, as stated: for every year and every month in 1..12 the window of    *)
(* the month starts at midnight of its first day and ends at midnight of   *)
(* the first day of the following calendar month (January of year + 1      *)
(* when the month is 12).                                                  *)
C5_EveryMonthHasItsWindow ==
    (asked # <<>> /\ asked[1] \in MINYEAR..MAXYEAR /\ asked[2] \in 1..12)
        => IsMonthWindow(window, asked[1], asked[2])

(* C5, amended: the same for every month from January of year 1 to         *)
(* November 9999, so that the window of a month ends exactly where the     *)
(* window of the following month starts; for December 9999 next_date       *)
(* raises ValueError, year 10000 being no datetime.                        *)
C5_MonthWindowsTile ==
    (asked # <<>> /\ asked[1] \in MINYEAR..MAXYEAR /\ asked[2] \in 1..12)
        => IF asked = <<MAXYEAR, 12>>
           THEN window = ValueError
           ELSE /\ IsMonthWindow(window, asked[1], asked[2])
                /\ LET following == FollowingMonth(asked[1], asked[2])
                       after == month_window(following[1], following[2])
                   IN  after # ValueError => after.begin = window.end

(* The window of a December was built: it ends in January of the next year. *)
C5_Witness ==
    /\ asked # <<>> /\ asked[2] = 12 /\ window # ValueError
    /\ window.end = [year |-> asked[1] + 1, month |-> 1, day |-> 1, hour |-> 0]

----------------------------------------------------------------------------
(* werkzeug: the Accept header as a MIMEAccept, the items [type, subtype,  *)
(* q] (q in tenths) ordered by specificity and then quality, highest       *)
(* first, items of equal rank in the order of the header.                  *)

MaxAccept == 2
Qualities == {0, 5, 10}

Mime(t, st) == [type |-> t, subtype |-> st]

JSON == Mime("application", "json")
HTML == Mime("text", "html")
NoMatch == Mime("", "")

AcceptPatterns ==
    {JSON, HTML, Mime("*", "*"), Mime("text", "*"), Mime("application", "*")}

AcceptItems == {[type |-> m.type, subtype |-> m.subtype, q |-> q] :
                    m \in AcceptPatterns, q \in Qualities}

Headers == UNION {[1..n -> AcceptItems] : n \in 0..MaxAccept}

_specificity(item) ==
    (IF item.type # "*" THEN 2 ELSE 0) + (IF item.subtype # "*" THEN 1 ELSE 0)

Rank(item) == 100 * _specificity(item) + item.q

(* sorted(values, key, reverse=True): a stable sort, highest key first. *)
RECURSIVE sorted_reverse(_)
sorted_reverse(values) ==
    IF values = <<>> THEN <<>>
    ELSE LET top == CHOOSE r \in {Rank(values[i]) : i \in 1..Len(values)} :
                       \A i \in 1..Len(values) : Rank(values[i]) <= r
         IN  SelectSeq(values, LAMBDA v : Rank(v) = top)
                \o sorted_reverse(SelectSeq(values, LAMBDA v : Rank(v) # top))

MIMEAccept(values) == sorted_reverse(values)

_value_matches(value, item) ==
    IF item.type = "*" /\ item.subtype # "*" THEN FALSE
    ELSE \/ (item.type = "*" /\ item.subtype = "*")
         \/ (value.type = "*" /\ value.subtype = "*")
         \/ /\ item.type = value.type
            /\ (item.subtype = "*" \/ value.subtype = "*" \/ item.subtype = value.subtype)

Matching(self, value) == {i \in 1..Len(self) : _value_matches(value, self[i])}

First(S) == CHOOSE i \in S : \A j \in S : i <= j

(* Accept.quality, which is what accept_mimetypes[key] returns. *)
quality(self, key) ==
    IF Matching(self, key) = {} THEN 0 ELSE self[First(Matching(self, key))].q

_best_single_match(self, match) ==
    IF Matching(self, match) = {} THEN <<>> ELSE <<self[First(Matching(self, match))]>>

RECURSIVE best_match_loop(_, _, _)
best_match_loop(self, matches, best) ==
    IF matches = <<>> THEN best.result
    ELSE LET server_item == Head(matches)
             match == _best_single_match(self, server_item)
         IN  IF match = <<>> THEN best_match_loop(self, Tail(matches), best)
             ELSE IF match[1].q <= 0 \/ match[1].q < best.quality
                  THEN best_match_loop(self, Tail(matches), best)
             ELSE IF match[1].q > best.quality \/ _specificity(match[1]) > best.specificity
                  THEN best_match_loop(self, Tail(matches),
                          [result |-> server_item, quality |-> match[1].q,
                           specificity |-> _specificity(match[1])])
             ELSE best_match_loop(self, Tail(matches), best)

best_match(self, matches) ==
    best_match_loop(self, matches, [result |-> NoMatch, quality |-> -1, specificity |-> -1])

wants_json_on_tie(accept_mimetypes) ==
    LET best == best_match(accept_mimetypes, <<JSON, HTML>>) IN
    best = JSON /\ quality(accept_mimetypes, best) >= quality(accept_mimetypes, HTML)

request_wants_json(accept_mimetypes) ==
    LET best == best_match(accept_mimetypes, <<JSON, HTML>>) IN
    best = JSON /\ quality(accept_mimetypes, best) > quality(accept_mimetypes, HTML)

----------------------------------------------------------------------------
(* product_datasets_page: the datasets of the index that match the query,  *)
(* `stored`, are [id, center_time] in the order the index returns them,    *)
(* the id of a dataset being its place in that order.                      *)

MaxSmall == 3
MaxStored == 501
CenterTimes == 0..2

SmallStores ==
    UNION {{[i \in 1..n |-> [id |-> i, center_time |-> t[i]]] : t \in [1..n -> CenterTimes]}
              : n \in 0..MaxSmall}

LargeStore(n) == [i \in 1..n |-> [id |-> i, center_time |-> (3 * i) % 5]]

Stores ==
    SmallStores \cup {LargeStore(n) : n \in {_HARD_SEARCH_LIMIT - 1, _HARD_SEARCH_LIMIT, MaxStored}}

(* index.datasets.search(query, limit=limit): at most `limit` matches. *)
search_limit(matches, limit) ==
    SubSeq(matches, 1, IF Len(matches) < limit THEN Len(matches) ELSE limit)

(* sorted(datasets, key=lambda d: d.center_time): a stable sort, lowest    *)
(* key first.                                                              *)
RECURSIVE sorted(_)
sorted(datasets) ==
    IF datasets = <<>> THEN <<>>
    ELSE LET low == CHOOSE t \in {datasets[i].center_time : i \in 1..Len(datasets)} :
                       \A i \in 1..Len(datasets) : t <= datasets[i].center_time
         IN  SelectSeq(datasets, LAMBDA d : d.center_time = low)
                \o sorted(SelectSeq(datasets, LAMBDA d : d.center_time # low))

listing_unsorted(matches) == search_limit(matches, _HARD_SEARCH_LIMIT)

listing(matches) == sorted(search_limit(matches, _HARD_SEARCH_LIMIT))

InitPage ==
    /\ DateIdle
    /\ clock = 0
    /\ index = InitialIndex
    /\ workers = 1
    /\ cache = [p \in Procs |-> EmptyCaches]
    /\ pc = [p \in Procs |-> "idle"]
    /\ cur = [p \in Procs |-> NoCall]
    /\ last = NoLast
    /\ hist = [op \in Ops |-> <<>>]
    /\ lastQuery = NoQuery
    /\ warm = 0
    /\ stored \in Stores
    /\ accept = <<>>
    /\ page = None

product_datasets_page ==
    /\ page = None
    /\ \E header \in Headers :
          /\ accept' = MIMEAccept(header)
          /\ page' = [kind |-> IF request_wants_json(MIMEAccept(header))
                               THEN "json" ELSE "html",
                      datasets |-> listing(stored)]
    /\ UNCHANGED <<stored, cacheVars, dateVars>>

NextPage == product_datasets_page

SpecPage == InitPage /\ [][NextPage]_vars

Served == page # None

Found == search_limit(stored, _HARD_SEARCH_LIMIT)

(* C6: product_datasets_page returns at most _HARD_SEARCH_LIMIT datasets,  *)
(* in non-decreasing order of center_time, in the JSON and in the HTML     *)
(* response; every dataset returned is one the search returned, and the    *)
(* sort drops or duplicates none.                                          *)
C6_ListingIsSortedSearchResult ==
    Served =>
        /\ page.kind \in {"json", "html"}
        /\ Len(page.datasets) <= _HARD_SEARCH_LIMIT
        /\ \A i \in 1..(Len(page.datasets) - 1) :
              page.datasets[i].center_time <= page.datasets[i + 1].center_time
        /\ Len(page.datasets) = Len(Found)
        /\ {page.datasets[j].id : j \in 1..Len(page.datasets)} = 1..Len(Found)
        /\ \A j \in 1..Len(page.datasets) :
              page.datasets[j] = Found[page.datasets[j].id]

(* A JSON listing cut at the limit, of datasets the index returned out of  *)
(* order.                                                                  *)
C6_Witness ==
    /\ Served /\ page.kind = "json"
    /\ Len(stored) > _HARD_SEARCH_LIMIT
    /\ Len(page.datasets) = _HARD_SEARCH_LIMIT
    /\ \E i \in 1..(Len(Found) - 1) : Found[i].center_time > Found[i + 1].center_time

(* The quality a header gives a type: that of the most specific item that  *)
(* matches it, the highest when several are as specific, 0 when none does. *)
HeaderQuality(value) ==
    LET hits == {i \in 1..Len(accept) : _value_matches(value, accept[i])}
        sharpest == {i \in hits : \A j \in hits : _specificity(accept[j]) <= _specificity(accept[i])}
    IN  IF hits = {} THEN 0
        ELSE CHOOSE q \in {accept[i].q : i \in sharpest} :
                \A i \in sharpest : accept[i].q <= q

(* C7: request_wants_json is true exactly when application/json is the     *)
(* best match of the Accept header among application/json and text/html    *)
(* and its quality is strictly greater than that of text/html; with equal  *)
(* qualities, or text/html preferred, the page is rendered as HTML.        *)
C7_JsonOnlyWhenStrictlyPreferred ==
    Served =>
        /\ page.kind = "json" <=>
              /\ best_match(accept, <<JSON, HTML>>) = JSON
              /\ HeaderQuality(JSON) > HeaderQuality(HTML)
        /\ HeaderQuality(JSON) <= HeaderQuality(HTML) => page.kind = "html"
        /\ HeaderQuality(JSON) > HeaderQuality(HTML) => page.kind = "json"

(* JSON was served to a header that also accepts text/html, with a lower   *)
(* quality.                                                                *)
C7_Witness ==
    /\ Served /\ page.kind = "json"
    /\ \E i \in 1..Len(accept) :
          accept[i].type = "text" /\ accept[i].subtype = "html" /\ accept[i].q > 0

====
